---- MODULE Spec2Model ----
(***************************************************************************)
(* Model of nec_control.cpp: a one-shot control client for NEC displays.   *)
(* It connects, frames one or two commands (power, backlight), writes each *)
(* frame, reads the display's answer and disconnects.                      *)
(*                                                                         *)
(* Bytes are integers 0..255; a buffer (std::vector<uint8_t>) is a         *)
(* sequence of bytes, so C++ index i is TLA+ index i+1.                    *)
(***************************************************************************)
EXTENDS Integers, Sequences, FiniteSets

VARIABLES
    pc,           \* position in main (or in the direct-call driver)
    power_state,  \* main: std::string power_state ("" when --power is absent)
    backlight,    \* main: int backlight (-1 when --backlight is absent)
    sock,         \* state of the global dsp_socket
    awaiting,     \* TRUE while send_standard_cmd is inside check_answer
    call,         \* the function last called and its arguments
    buffer,       \* the nec_data_t the last call built
    io,           \* system calls made on dsp_socket so far, in order
    thrown,       \* what() of the std::runtime_error thrown, or "none"
    exit_code     \* return value of main, -1 while it has not returned

vars == <<pc, power_state, backlight, sock, awaiting, call, buffer, io, thrown, exit_code>>

(***************************************************************************)
(* Bounds of the model.                                                    *)
(***************************************************************************)
\* read() returns -1..MaxRcvLen (at most nec_max_msg_len); contents are opaque.
MaxRcvLen == 2
\* fill_buffer_start is called directly with len in 0..MaxRawLen.
MaxRawLen == 18
\* send_standard_cmd is called directly with values that wrap the uint16_t
\* range up to MaxWrap times in either direction.
MaxWrap == 1
\* ... and that sit 0..MaxOffset above a multiple of 0x1111.
MaxOffset == 15

(***************************************************************************)
(* Constants of the program.                                               *)
(***************************************************************************)
command             == 65   \* 'A'
command_reply       == 66   \* 'B'
get_parameter       == 67   \* 'C'
get_parameter_reply == 68   \* 'D'
set_parameter       == 69   \* 'E'
set_parameter_reply == 70   \* 'F'

nec_message_t == {command, command_reply, get_parameter, get_parameter_reply,
                  set_parameter, set_parameter_reply}

nec_command_t == {"power", "backlight"}

nec_max_msg_len == 64
nec_std_int_len == 4
nec_stx_etx_len == 2

nec_cmd_val_power_on  == 1
nec_cmd_val_power_off == 4

nec_commands_list ==
    [power     |-> [msg_type |-> command,       bytes |-> <<67, 50, 48, 51, 68, 54>>],
     backlight |-> [msg_type |-> set_parameter, bytes |-> <<48, 48, 49, 48>>]]

(***************************************************************************)
(* Integer conversions and bit operations.                                 *)
(***************************************************************************)
\* Conversion to uint8_t (push_back of an integer expression).
uint8(n) == n % 256

\* Conversion of the int argument to the uint16_t parameter of fill_number.
to_uint16(value) == value % 65536

RECURSIVE xor(_, _)
\* a ^ b on non-negative integers.
xor(a, b) ==
    IF a = 0 THEN b
    ELSE IF b = 0 THEN a
    ELSE ((a + b) % 2) + 2 * xor(a \div 2, b \div 2)

\* One character of operator<< under std::hex (lowercase digits).
hex_char(d) == IF d < 10 THEN 48 + d ELSE 97 + (d - 10)

(***************************************************************************)
(* The frame codec.                                                        *)
(***************************************************************************)
fill_buffer_start_plus6(buf, type, len) ==
    LET l == IF len > 9 THEN len + 6 ELSE len
    IN  buf \o <<1, 48, 65, 48, type, 48, uint8(48 + l), 2>>

fill_buffer_start_gt10(buf, type, len) ==
    LET l == IF len > 10 THEN len + 7 ELSE len
    IN  buf \o <<1, 48, 65, 48, type, 48, uint8(48 + l), 2>>

fill_buffer_start(buf, type, len) ==
    LET l == IF len > 9 THEN len + 7 ELSE len
    IN  buf \o <<1, 48, 65, 48, type, 48, uint8(48 + l), 2>>

RECURSIVE bcc_loop(_, _, _)
\* for (index = ...; index < buffer.size(); index++) check = check ^ buffer[index];
bcc_loop(buf, index, check) ==
    IF index > Len(buf) THEN check
    ELSE bcc_loop(buf, index + 1, xor(check, buf[index]))

fill_buffer_end_from_soh(buf) ==
    LET b == Append(buf, 3)
    IN  b \o <<bcc_loop(b, 2, b[1]), 13>>

fill_buffer_end(buf) ==
    LET b == Append(buf, 3)
    IN  b \o <<bcc_loop(b, 3, b[2]), 13>>

fill_number_upper(buf, value) ==
    LET v == to_uint16(value)
        up(d) == IF d < 10 THEN 48 + d ELSE 65 + (d - 10)
    IN  buf \o <<up(v \div 4096), up((v \div 256) % 16),
                 up((v \div 16) % 16), up(v % 16)>>

fill_number(buf, value) ==
    LET v == to_uint16(value)
    IN  buf \o <<hex_char(v \div 4096), hex_char((v \div 256) % 16),
                 hex_char((v \div 16) % 16), hex_char(v % 16)>>

\* The buffer send_standard_cmd hands to ::write.
build_frame(cmd, value) ==
    LET cmd_desc == nec_commands_list[cmd]
        b1 == fill_buffer_start(<<>>, cmd_desc.msg_type,
                                Len(cmd_desc.bytes) + nec_std_int_len + nec_stx_etx_len)
        b2 == b1 \o cmd_desc.bytes
        b3 == fill_number(b2, value)
    IN  fill_buffer_end(b3)

(***************************************************************************)
(* System calls on dsp_socket.                                             *)
(***************************************************************************)
Event(op, frame, ret) == [op |-> op, frame |-> frame, ret |-> ret]

\* ::write returns the number of bytes written, or -1.
WriteResults(frame) == {-1, Len(frame)}

\* ::read returns -1 (error or SO_RCVTIMEO expiry), 0 (end of stream) or a count.
ReadResults == {n \in -1..MaxRcvLen : n <= nec_max_msg_len}

check_answer_never_throws(rcv_len) == rcv_len < -1

check_answer_throws(rcv_len) == rcv_len < 0

ConnectOutcomes == {"ok", "getaddrinfo", "socket", "connect"}

\* Where main continues after a send_standard_cmd call returns.
ReturnTo(p) ==
    CASE p = "l161" -> "l162"
      [] p = "l162" -> "l163"
      [] p = "l163" -> "l164"
      [] OTHER      -> "done"

NoCall == [fn |-> "none", cmd |-> "none", type |-> 0, arg |-> 0]

(***************************************************************************)
(* main                                                                    *)
(***************************************************************************)
Init ==
    /\ pc = "connect"
    /\ power_state \in {"", "on", "off"}
    /\ backlight \in {-1} \cup 0..100
    /\ sock = "none"
    /\ awaiting = FALSE
    /\ call = NoCall
    /\ buffer = <<>>
    /\ io = <<>>
    /\ thrown = "none"
    /\ exit_code = -1

Connect ==
    /\ pc = "connect"
    /\ \E outcome \in ConnectOutcomes :
         CASE outcome = "ok" ->
                /\ sock' = "connected"
                /\ pc' = "l161"
                /\ UNCHANGED <<io, thrown, exit_code>>
           [] outcome = "getaddrinfo" ->
                /\ thrown' = "cannot get address info"
                /\ exit_code' = 1
                /\ pc' = "done"
                /\ UNCHANGED <<sock, io>>
           [] outcome = "socket" ->
                /\ sock' = "invalid"
                /\ thrown' = "cannot create socket"
                /\ exit_code' = 1
                /\ pc' = "done"
                /\ UNCHANGED io
           [] outcome = "connect" ->
                /\ sock' = "closed"
                /\ io' = Append(io, Event("close", <<>>, 0))
                /\ thrown' = "cannot connect to monitor"
                /\ exit_code' = 1
                /\ pc' = "done"
    /\ UNCHANGED <<power_state, backlight, awaiting, call, buffer>>

\* send_standard_cmd up to and including ::write; check_answer follows.
SendStandardCmd(cmd, value) ==
    /\ buffer' = build_frame(cmd, value)
    /\ call' = [fn |-> "send_standard_cmd", cmd |-> cmd, type |-> 0, arg |-> value]
    /\ \E ret \in WriteResults(buffer') :
         io' = Append(io, Event("write", buffer', ret))
    /\ awaiting' = TRUE
    /\ UNCHANGED <<pc, power_state, backlight, sock, thrown, exit_code>>

Skip(next) ==
    /\ pc' = next
    /\ UNCHANGED <<power_state, backlight, sock, awaiting, call, buffer, io,
                   thrown, exit_code>>

PowerOn ==
    /\ pc = "l161"
    /\ ~awaiting
    /\ IF power_state = "on"
       THEN SendStandardCmd("power", nec_cmd_val_power_on)
       ELSE Skip("l162")

PowerOff ==
    /\ pc = "l162"
    /\ ~awaiting
    /\ IF power_state = "off"
       THEN SendStandardCmd("power", nec_cmd_val_power_off)
       ELSE Skip("l163")

Backlight ==
    /\ pc = "l163"
    /\ ~awaiting
    /\ IF backlight > 0
       THEN SendStandardCmd("backlight", backlight)
       ELSE Skip("l164")

\* check_answer; the hex dump of the answer on standard output is not modelled.
CheckAnswer ==
    /\ awaiting
    /\ \E rcv_len \in ReadResults :
         /\ io' = Append(io, Event("read", <<>>, rcv_len))
         /\ IF check_answer_throws(rcv_len)
            THEN /\ thrown' = "cannot read from socket"
                 /\ exit_code' = IF pc = "direct" THEN exit_code ELSE 1
                 /\ pc' = "done"
            ELSE /\ pc' = ReturnTo(pc)
                 /\ UNCHANGED <<thrown, exit_code>>
    /\ awaiting' = FALSE
    /\ UNCHANGED <<power_state, backlight, sock, call, buffer>>

Disconnect ==
    /\ pc = "l164"
    /\ sock' = "closed"
    /\ io' = Append(io, Event("close", <<>>, 0))
    /\ exit_code' = 0
    /\ pc' = "done"
    /\ UNCHANGED <<power_state, backlight, awaiting, call, buffer, thrown>>

Next == Connect \/ PowerOn \/ PowerOff \/ Backlight \/ CheckAnswer \/ Disconnect

Spec == Init /\ [][Next]_vars

(***************************************************************************)
(* The codec called directly, with arguments main never passes.            *)
(***************************************************************************)
CmdValues ==
    { w * 65536 + s * 4369 + o : w \in -MaxWrap..MaxWrap, s \in 0..15, o \in 0..MaxOffset }

InitCodec ==
    /\ pc = "direct"
    /\ power_state = ""
    /\ backlight = -1
    /\ sock = "connected"
    /\ awaiting = FALSE
    /\ call = NoCall
    /\ buffer = <<>>
    /\ io = <<>>
    /\ thrown = "none"
    /\ exit_code = -1

CallFillBufferStart ==
    /\ pc = "direct"
    /\ ~awaiting
    /\ \E type \in nec_message_t, len \in 0..MaxRawLen :
         /\ buffer' = fill_buffer_start(<<>>, type, len)
         /\ call' = [fn |-> "fill_buffer_start", cmd |-> "none", type |-> type, arg |-> len]
    /\ pc' = "done"
    /\ UNCHANGED <<power_state, backlight, sock, awaiting, io, thrown, exit_code>>

CallSendStandardCmd ==
    /\ pc = "direct"
    /\ ~awaiting
    /\ \E cmd \in nec_command_t, value \in CmdValues :
         SendStandardCmd(cmd, value)

NextCodec == CallFillBufferStart \/ CallSendStandardCmd \/ CheckAnswer

SpecCodec == InitCodec /\ [][NextCodec]_vars

(***************************************************************************)
(* Vocabulary of the properties.  These re-derive what a frame must look   *)
(* like from the protocol rules, independently of the codec above.         *)
(***************************************************************************)
Called(fn) == call.fn = fn

\* Parity of bit k over the bytes of s.
BitParity(s, k) == Cardinality({i \in DOMAIN s : (s[i] \div (2 ^ k)) % 2 = 1}) % 2

\* XOR-reduction of the bytes of s, bit by bit.
XorReduce(s) ==
    BitParity(s, 0) + 2 * BitParity(s, 1) + 4 * BitParity(s, 2) + 8 * BitParity(s, 3)
    + 16 * BitParity(s, 4) + 32 * BitParity(s, 5) + 64 * BitParity(s, 6)
    + 128 * BitParity(s, 7)

LowerHexChars == 48..57 \cup 97..102
UpperHexChars == 48..57 \cup 65..70

\* Value of one lowercase hex character.
HexVal(c) == IF c <= 57 THEN c - 48 ELSE c - 87

\* Value of the 4 hex characters of frame that start at index at.
DecodeNumber(frame, at) ==
    4096 * HexVal(frame[at]) + 256 * HexVal(frame[at + 1])
    + 16 * HexVal(frame[at + 2]) + HexVal(frame[at + 3])

WriteEvents == {i \in DOMAIN io : io[i].op = "write"}
ReadEvents  == {i \in DOMAIN io : io[i].op = "read"}
CloseEvents == {i \in DOMAIN io : io[i].op = "close"}

\* frame carries command cmd with parameter value.
IsFrameFor(frame, cmd, value) ==
    LET d == nec_commands_list[cmd]
        p == Len(d.bytes)
    IN  /\ Len(frame) = 8 + p + 4 + 3
        /\ frame[5] = d.msg_type
        /\ SubSeq(frame, 9, 8 + p) = d.bytes
        /\ \A k \in 0..3 : frame[9 + p + k] \in LowerHexChars
        /\ DecodeNumber(frame, 9 + p) = value

ConnectSucceeded ==
    /\ pc # "connect"
    /\ thrown \notin {"cannot get address info", "cannot create socket",
                      "cannot connect to monitor"}

(***************************************************************************)
(* C1: in every frame built by send_standard_cmd, the byte right after the *)
(* ETX byte equals the XOR of all frame bytes from the reserved byte       *)
(* (C++ index 1) through the ETX byte inclusive.                           *)
(***************************************************************************)
C1_CheckByteIsXorThroughEtx ==
    Called("send_standard_cmd") =>
        LET n == Len(buffer)
        IN  /\ buffer[n - 2] = 3
            /\ buffer[n - 1] = XorReduce(SubSeq(buffer, 2, n - 2))

C1_Witness ==
    /\ Called("send_standard_cmd")
    /\ call.cmd = "backlight"
    /\ call.arg = 43690
    /\ \E i \in WriteEvents : io[i].frame = buffer

(***************************************************************************)
(* C2 as stated: send_standard_cmd(power, 1) produces                      *)
(* 01 30 41 30 41 30 38 02 43 32 30 33 44 36 30 30 30 31 03 77 0D.         *)
(***************************************************************************)
C2_PowerOnVectorAsStated ==
    (Called("send_standard_cmd") /\ call.cmd = "power" /\ call.arg = 1) =>
        buffer = <<1, 48, 65, 48, 65, 48, 56, 2, 67, 50, 48, 51, 68, 54,
                   48, 48, 48, 49, 3, 119, 13>>

(***************************************************************************)
(* C2 amended: send_standard_cmd(power, 1) produces the 21 bytes           *)
(* 01 30 41 30 41 30 43 02 43 32 30 33 44 36 30 30 30 31 03 73 0D:         *)
(* the second length character is 'C' (raw length 6+4+2 = 12) and the      *)
(* check byte, the XOR of the reserved byte through ETX, is 0x73.          *)
(***************************************************************************)
C2_PowerOnVector ==
    (Called("send_standard_cmd") /\ call.cmd = "power" /\ call.arg = 1) =>
        /\ buffer = <<1, 48, 65, 48, 65, 48, 67, 2, 67, 50, 48, 51, 68, 54,
                      48, 48, 48, 49, 3, 115, 13>>
        /\ XorReduce(SubSeq(buffer, 2, 19)) = 115

C2_Witness ==
    /\ Called("send_standard_cmd")
    /\ call.cmd = "power"
    /\ call.arg = 1
    /\ power_state = "on"
    /\ \E i \in WriteEvents : io[i].frame = buffer /\ Len(io[i].frame) = 21

(***************************************************************************)
(* C3: for every raw length L in 0..15 given to fill_buffer_start, the     *)
(* second length byte (C++ index 6) is '0'+L when L <= 9 and 'A'+(L-10)    *)
(* when 10 <= L <= 15, and the first length byte (C++ index 5) is '0';     *)
(* send_standard_cmd passes L = prefix length + 4 + 2, so a Backlight      *)
(* frame carries 'A'.                                                      *)
(***************************************************************************)
LengthChar(L) == IF L <= 9 THEN 48 + L ELSE 65 + (L - 10)

C3_LengthBytes ==
    /\ (Called("fill_buffer_start") /\ call.arg \in 0..15) =>
           (buffer[6] = 48 /\ buffer[7] = LengthChar(call.arg))
    /\ Called("send_standard_cmd") =>
           /\ buffer[6] = 48
           /\ buffer[7] = LengthChar(Len(nec_commands_list[call.cmd].bytes) + 4 + 2)
           /\ call.cmd = "backlight" => buffer[7] = 65

C3_Witness ==
    /\ Called("fill_buffer_start")
    /\ call.arg = 15
    /\ buffer[7] = 70

(***************************************************************************)
(* C4 as stated: when the raw length is greater than 15, encoding fails    *)
(* with an error and produces no frame bytes at all.                       *)
(***************************************************************************)
C4_TooLargeFails ==
    (Called("fill_buffer_start") /\ call.arg > 15) =>
        (thrown # "none" /\ buffer = <<>>)

(***************************************************************************)
(* C5 as stated: a parameter value above 65535 or below 0 makes            *)
(* send_standard_cmd fail; no frame is written to the socket for it.       *)
(***************************************************************************)
C5_OutOfRangeValueFails ==
    (Called("send_standard_cmd") /\ call.arg \notin 0..65535) =>
        (thrown # "none" /\ WriteEvents = {})

(***************************************************************************)
(* C6: the frame send_standard_cmd writes for a descriptor with prefix     *)
(* length p and a value in 0..65535 is, in order: 01 30 41 30, the         *)
(* message-type byte, two length characters, 02, the p prefix bytes, 4     *)
(* lowercase hex characters that spell the value (most significant first,  *)
(* zero padded), 03, one check byte, 0D; 8 + p + 4 + 1 + 1 + 1 bytes.      *)
(***************************************************************************)
C6_FrameLayout ==
    (Called("send_standard_cmd") /\ call.arg \in 0..65535) =>
        LET d == nec_commands_list[call.cmd]
            p == Len(d.bytes)
        IN  /\ \E i \in WriteEvents : io[i].frame = buffer
            /\ Len(buffer) = 8 + p + 4 + 1 + 1 + 1
            /\ SubSeq(buffer, 1, 4) = <<1, 48, 65, 48>>
            /\ buffer[5] = d.msg_type
            /\ buffer[6] \in UpperHexChars
            /\ buffer[7] \in UpperHexChars
            /\ buffer[8] = 2
            /\ SubSeq(buffer, 9, 8 + p) = d.bytes
            /\ \A k \in 0..3 : buffer[9 + p + k] \in LowerHexChars
            /\ DecodeNumber(buffer, 9 + p) = call.arg
            /\ buffer[13 + p] = 3
            /\ buffer[14 + p] \in 0..255
            /\ buffer[15 + p] = 13

C6_Witness ==
    /\ Called("send_standard_cmd")
    /\ call.cmd = "power"
    /\ call.arg = 65535
    /\ SubSeq(buffer, 15, 18) = <<102, 102, 102, 102>>
    /\ Len(buffer) = 21

(***************************************************************************)
(* C7: commands of one run are sequential.  A frame is written only when   *)
(* every earlier frame has been followed by a read that check_answer       *)
(* accepted (read returned without error), and never after a read that     *)
(* failed or timed out.                                                    *)
(***************************************************************************)
C7_Sequential ==
    \A i \in WriteEvents :
        /\ \A j \in WriteEvents :
               j < i => \E k \in ReadEvents : j < k /\ k < i /\ io[k].ret >= 0
        /\ \A k \in ReadEvents : k < i => io[k].ret >= 0

C7_Witness ==
    /\ Cardinality(WriteEvents) = 2
    /\ IsFrameFor(io[1].frame, "power", nec_cmd_val_power_off)
    /\ io[2].op = "read"
    /\ IsFrameFor(io[3].frame, "backlight", backlight)

(***************************************************************************)
(* C8 as stated: main returns 0 only when every requested command was      *)
(* written and answered without failure after a successful connect, and    *)
(* returns 1 on any failure of connect, of a write or of a read.           *)
(***************************************************************************)
RequestedCmds ==
    (IF power_state \in {"on", "off"} THEN 1 ELSE 0)
    + (IF backlight \in 0..100 THEN 1 ELSE 0)

AllSucceeded ==
    /\ ConnectSucceeded
    /\ Cardinality(WriteEvents) = RequestedCmds
    /\ Cardinality(ReadEvents) = RequestedCmds
    /\ \A i \in WriteEvents : io[i].ret = Len(io[i].frame)
    /\ \A i \in ReadEvents : io[i].ret >= 0

C8_ExitCode ==
    pc = "done" =>
        /\ exit_code \in {0, 1}
        /\ exit_code = 0 <=> AllSucceeded

(***************************************************************************)
(* C9 as stated: for every level 0..100 given with --backlight, a run      *)
(* that connects and meets no failure sends exactly one Backlight frame    *)
(* carrying that level; --power on sends value 1 and --power off value 4.  *)
(***************************************************************************)
FramesFor(cmd, value) ==
    {i \in WriteEvents : IsFrameFor(io[i].frame, cmd, value)}

C9_CommandsSent ==
    (pc = "done" /\ thrown = "none") =>
        /\ backlight \in 0..100 =>
               Cardinality(FramesFor("backlight", backlight)) = 1
        /\ power_state = "on" => Cardinality(FramesFor("power", 1)) = 1
        /\ power_state = "off" => Cardinality(FramesFor("power", 4)) = 1

(***************************************************************************)
(* C10 as stated: on every path where connect succeeded the socket is      *)
(* closed exactly once before main returns, also when a read fails or      *)
(* times out, and nothing is written or read after the close or after a    *)
(* failed connect.                                                         *)
(***************************************************************************)
C10_ClosedOnce ==
    /\ (pc = "done" /\ ConnectSucceeded) => Cardinality(CloseEvents) = 1
    /\ \A i \in CloseEvents : \A j \in WriteEvents \cup ReadEvents : j < i
    /\ ~ConnectSucceeded => WriteEvents \cup ReadEvents = {}

====
